---------------------------- MODULE Spec2Model ----------------------------
(***************************************************************************)
(* Model of upload_images.py: the DigitalOcean Spaces image uploader.      *)
(*                                                                         *)
(* Spec        the orchestrator: main -> upload_directory -> the           *)
(*             sequential loop or the batch loop over a thread pool, the   *)
(*             per-file task process_and_upload_image, the Stats counters, *)
(*             the object store, and KeyboardInterrupt.                    *)
(* LiveSpec    Spec with weak fairness of the program's own steps.         *)
(* UploadSpec  one call of upload_file on every script of put outcomes.    *)
(* TaskSpec    one call of process_and_upload_image on every store and     *)
(*             every behaviour of its collaborators.                       *)
(* ThumbSpec   one call of create_thumbnail on every image size, with the  *)
(*             float arithmetic of the interpreter.                        *)
(* LockSpec    one run of upload_directory with every increment of a       *)
(*             counter taken apart into acquire, load, store, release.     *)
(* ReuseSpec   upload_directory called again on the same ImageUploader.    *)
(* PathSpec    one run of upload_directory in a world fixed beforehand,    *)
(*             compared with the sequential loop as a function.            *)
(***************************************************************************)
EXTENDS Integers, Sequences, FiniteSets, TLC

\* ------------------------------------------------------------------ bounds
MaxFiles == 2
MaxWorkers == 2
MaxBatch == 2
MaxRetry == 3
MaxDim == 24
MaxRuns == 2

\* default of upload_file's retry_count parameter
RetryCount == 3

VARIABLES
    pc,             \* position of the main thread
    nfiles,         \* number of image files under the scanned directory
    skip_existing,  \* upload_directory's arguments
    workers,
    batch_size,
    image_files,    \* the sorted list get_image_files returned
    stats,          \* self.stats
    store,          \* keys present in the bucket
    task,           \* per file: the state of its process_and_upload_image call
    idx,            \* sequential loop: number of files already taken
    batch_start,    \* concurrent loop: range() value of the current batch
    interrupted,    \* a KeyboardInterrupt was delivered to the main thread
    summaries,      \* number of print_summary calls of this process
    tally,          \* per file: the increments made to each counter for it
    all_present,    \* the run before this one ended Done with every key in the bucket
    put_attempted,  \* put_object was called since upload_directory was entered
    head_fault,     \* head_object failed otherwise than by 404 since then
    head_called,    \* head_object was called since then
    fresh,          \* the writes of a run without skip_existing and without failure
    up,             \* UploadSpec: the upload_file call under test
    call,           \* TaskSpec: the process_and_upload_image call under test
    thumb,          \* ThumbSpec: the create_thumbnail call under test
    lock,           \* LockSpec: the threads holding self.stats_lock
    reg,            \* LockSpec: per thread, its position in `stats[c] += 1`
    runs,           \* ReuseSpec: upload_directory calls made on the uploader
    world           \* PathSpec: the bucket and the collaborators of the run

vars == <<pc, nfiles, skip_existing, workers, batch_size, image_files, stats,
          store, task, idx, batch_start, interrupted, summaries, tally,
          all_present, put_attempted, head_fault, head_called, fresh, up,
          call, thumb, lock, reg, runs, world>>

\* the variables of the orchestrator's run
run_vars == <<pc, nfiles, skip_existing, workers, batch_size, image_files,
              stats, store, task, idx, batch_start, interrupted, summaries,
              tally, all_present, put_attempted, head_fault, head_called,
              fresh>>

\* the variables of the other specifications, which the orchestrator's actions
\* leave alone
aux_vars == <<up, call, thumb, lock, reg, runs, world>>

Files == 1..MaxFiles

Min(a, b) == IF a < b THEN a ELSE b

\* ------------------------------------------------------------- remote keys
original_key(f) == <<"original", f>>
thumbnail_key(f) == <<"thumbnail", f>>

\* The two keys of every file of the directory.
AllKeys ==
    {original_key(f) : f \in 1..nfiles} \cup {thumbnail_key(f) : f \in 1..nfiles}

\* -------------------------------------------------------------- the store
\* What s3_client.head_object can do for a key: answer, raise ClientError
\* (404 when the key is absent, 403 whatever the store holds), or raise
\* something that is no ClientError (connection, credentials).
HeadOutcomes(st, key) ==
    (IF key \in st THEN {"found"} ELSE {"not_found"}) \cup {"forbidden", "unexpected"}

\* What s3_client.put_object can do: succeed, raise ClientError (a transient
\* 5xx or a permanent 403), or raise something that is no ClientError.
PutOutcomes == {"ok", "transient", "permanent", "unexpected"}

ClientError == {"transient", "permanent", "not_found", "forbidden"}

\* file_exists_in_spaces: [raised, value]
file_exists_in_spaces(outcome) ==
    IF outcome = "found" THEN [raised |-> FALSE, value |-> TRUE]
    ELSE IF outcome \in ClientError THEN [raised |-> FALSE, value |-> FALSE]
    ELSE [raised |-> TRUE, value |-> FALSE]

\* upload_file's for loop from `attempt` on: [ok, attempts], attempts being the
\* number of put_object calls made.
RECURSIVE upload_loop(_, _, _)
upload_loop(outs, attempt, retry_count) ==
    IF attempt >= retry_count THEN [ok |-> FALSE, attempts |-> attempt]
    ELSE IF outs[attempt + 1] = "ok" THEN [ok |-> TRUE, attempts |-> attempt + 1]
    ELSE IF outs[attempt + 1] \in ClientError
         THEN IF attempt < retry_count - 1
              THEN upload_loop(outs, attempt + 1, retry_count)
              ELSE [ok |-> FALSE, attempts |-> attempt + 1]
    ELSE [ok |-> FALSE, attempts |-> attempt + 1]

\* upload_file with one more attempt after the last failure
upload_file_extra(outs, retry_count) ==
    LET ret == upload_loop(outs, 0, retry_count)
    IN  IF ret.ok THEN ret ELSE [ok |-> FALSE, attempts |-> ret.attempts + 1]

\* upload_file with a loop one attempt short
upload_file_short(outs, retry_count) == upload_loop(outs, 0, retry_count - 1)

upload_file(outs, retry_count) == upload_loop(outs, 0, retry_count)

\* The put scripts the calls are run against: none, all but one or all of the
\* attempts fail with a ClientError, or the first attempt fails with something
\* else. (UploadSpec runs upload_file on every script.)
PutScripts ==
    {[i \in 1..RetryCount |-> IF i <= k THEN "transient" ELSE "ok"] :
        k \in {0, RetryCount - 1, RetryCount}}
    \cup {[i \in 1..RetryCount |-> IF i = 1 THEN "unexpected" ELSE "ok"]}

\* ------------------------------------------------------- float arithmetic
\* Python floats are IEEE 754 binary64: 53 significant bits, round to nearest,
\* ties to even. A natural number is a sequence of bits, least significant
\* first, without leading zeros; a float is [m, e], m of Precision bits with
\* its top bit set, of value m * 2^e.
Precision == 53

\* The loops over the bits of a number are evaluated as folds over index
\* ranges, a range being split in two halves: the second half starts from the
\* state the first half left.
RECURSIVE Bits(_)
Bits(n) == IF n = 0 THEN <<>> ELSE <<n % 2>> \o Bits(n \div 2)

\* the number whose bits are b[i..Len(b)] (of int size)
RECURSIVE ValueFrom(_, _)
ValueFrom(b, i) == IF i > Len(b) THEN 0 ELSE b[i] + 2 * ValueFrom(b, i + 1)

Value(b) == ValueFrom(b, 1)

Zeros(n) == [i \in 1..n |-> 0]

\* b without its leading zeros
Trim(b) ==
    IF \A i \in 1..Len(b) : b[i] = 0 THEN <<>>
    ELSE SubSeq(b, 1, CHOOSE n \in 1..Len(b) :
                        b[n] = 1 /\ \A j \in (n + 1)..Len(b) : b[j] = 0)

Bit(b, i) == IF i <= Len(b) THEN b[i] ELSE 0

Double(b, bit) == IF b = <<>> /\ bit = 0 THEN <<>> ELSE <<bit>> \o b

BigLess(a, b) ==
    \/ Len(a) < Len(b)
    \/ /\ Len(a) = Len(b)
       /\ \E i \in 1..Len(a) :
            /\ a[i] < b[i]
            /\ \A j \in (i + 1)..Len(a) : a[j] = b[j]

\* bit i of a + b: st is the bits below i and the carry into i
AddStep(st, a, b, i) ==
    LET s == Bit(a, i) + Bit(b, i) + st.carry
    IN  [out |-> Append(st.out, s % 2), carry |-> s \div 2]

RECURSIVE AddFold(_, _, _, _, _)
AddFold(st, a, b, lo, hi) ==
    IF lo > hi THEN st
    ELSE IF lo = hi THEN AddStep(st, a, b, lo)
    ELSE LET mid == (lo + hi) \div 2
         IN  CHOOSE res \in {AddFold(lower, a, b, mid + 1, hi) :
                                lower \in {AddFold(st, a, b, lo, mid)}} : TRUE

BigAdd(a, b) ==
    CHOOSE sum \in
        {res.out \o Bits(res.carry) :
            res \in {AddFold([out |-> <<>>, carry |-> 0], x, y, 1,
                             IF Len(x) > Len(y) THEN Len(x) ELSE Len(y)) :
                        x \in {a}, y \in {b}}} : TRUE

\* bit i of a - b: st is the bits below i and the borrow from i
SubStep(st, a, b, i) ==
    LET d == Bit(a, i) - Bit(b, i) - st.borrow
    IN  [out |-> Append(st.out, d % 2), borrow |-> IF d < 0 THEN 1 ELSE 0]

RECURSIVE SubFold(_, _, _, _, _)
SubFold(st, a, b, lo, hi) ==
    IF lo > hi THEN st
    ELSE IF lo = hi THEN SubStep(st, a, b, lo)
    ELSE LET mid == (lo + hi) \div 2
         IN  CHOOSE res \in {SubFold(lower, a, b, mid + 1, hi) :
                                lower \in {SubFold(st, a, b, lo, mid)}} : TRUE

\* a - b for a >= b
BigSub(a, b) ==
    CHOOSE dif \in
        {Trim(res.out) :
            res \in {SubFold([out |-> <<>>, borrow |-> 0], x, y, 1, Len(x)) :
                        x \in {a}, y \in {b}}} : TRUE

\* shift and add: acc is a[i+1..] * b
MulStep(acc, a, b, i) ==
    IF a[i] = 1 THEN BigAdd(Double(acc, 0), b) ELSE Double(acc, 0)

\* the bits hi down to lo of a
RECURSIVE MulFold(_, _, _, _, _)
MulFold(acc, a, b, lo, hi) ==
    IF lo > hi THEN acc
    ELSE IF lo = hi THEN MulStep(acc, a, b, lo)
    ELSE LET mid == (lo + hi) \div 2
         IN  CHOOSE res \in {MulFold(upper, a, b, lo, mid) :
                                upper \in {MulFold(acc, a, b, mid + 1, hi)}} : TRUE

BigMul(a, b) ==
    CHOOSE prod \in {MulFold(<<>>, x, y, 1, Len(x)) : x \in {a}, y \in {b}} : TRUE

\* One step of the long division by b: the next bit of the dividend is
\* brought down.
DivStep(st, bit, b) ==
    LET r2 == Double(st.r, bit)
    IN  IF BigLess(r2, b) THEN [q |-> Double(st.q, 0), r |-> r2]
        ELSE [q |-> Double(st.q, 1), r |-> BigSub(r2, b)]

\* The long division over the bits hi down to lo of a: the upper half, then
\* the lower half from the state the upper half left.
RECURSIVE DivFold(_, _, _, _, _)
DivFold(st, a, lo, hi, b) ==
    IF lo > hi THEN st
    ELSE IF lo = hi THEN DivStep(st, a[lo], b)
    ELSE LET mid == (lo + hi) \div 2
         IN  CHOOSE res \in {DivFold(upper, a, lo, mid, b) :
                                upper \in {DivFold(st, a, mid + 1, hi, b)}} : TRUE

\* quotient and remainder of a by b > 0
BigDivMod(a, b) ==
    CHOOSE dm \in {DivFold([q |-> <<>>, r |-> <<>>], x, 1, Len(x), y) :
                        x \in {a}, y \in {b}} : TRUE

\* The float nearest to n * 2^e, or to a real strictly between n * 2^e and
\* (n + 1) * 2^e when sticky; n has at least Precision bits or is exact.
fround(n, e, sticky) ==
    LET d == Len(n) - Precision IN
    IF d <= 0 THEN [m |-> Zeros(0 - d) \o n, e |-> e + d]
    ELSE LET kept == SubSeq(n, d + 1, Len(n))
             half == n[d] = 1
             rest == sticky \/ \E i \in 1..(d - 1) : n[i] = 1
             up1 == half /\ (rest \/ kept[1] = 1)
             inc == IF up1 THEN BigAdd(kept, <<1>>) ELSE kept
         IN  IF Len(inc) > Precision THEN [m |-> Tail(inc), e |-> e + d + 1]
             ELSE [m |-> inc, e |-> e + d]

\* float(n) for an int n >= 1
float(n) == fround(Bits(n), 0, FALSE)

\* x * y
fmul(x, y) ==
    CHOOSE z \in {fround(p, x.e + y.e, FALSE) : p \in {BigMul(x.m, y.m)}} : TRUE

\* x / y
fdiv(x, y) ==
    CHOOSE z \in {fround(dm.q, x.e - y.e - (Precision + 2), dm.r # <<>>) :
                    dm \in {BigDivMod(Zeros(Precision + 2) \o x.m, y.m)}} : TRUE

\* x > y
fgreater(x, y) == x.e > y.e \/ (x.e = y.e /\ BigLess(y.m, x.m))

\* int(x): truncation toward zero
int(x) ==
    IF x.e >= 0 THEN Value(Zeros(x.e) \o x.m)
    ELSE IF 0 - x.e >= Precision THEN 0
    ELSE Value(SubSeq(x.m, 1 - x.e, Precision))

\* -------------------------------------------------------- create_thumbnail
THUMBNAIL_WIDTH == 200
THUMBNAIL_HEIGHT == 300

\* the size given to img.resize, the branches the wrong way round (the image
\* fitted inside the thumbnail)
scaled_size_fit(original_width, original_height) ==
    LET aspect_ratio == fdiv(float(original_width), float(original_height))
        target_ratio == fdiv(float(THUMBNAIL_WIDTH), float(THUMBNAIL_HEIGHT))
    IN  IF fgreater(target_ratio, aspect_ratio)
        THEN [new_width |-> int(fmul(float(THUMBNAIL_HEIGHT), aspect_ratio)),
              new_height |-> THUMBNAIL_HEIGHT]
        ELSE [new_width |-> THUMBNAIL_WIDTH,
              new_height |-> int(fdiv(float(THUMBNAIL_WIDTH), aspect_ratio))]

\* the size given to img.resize
scaled_size(original_width, original_height) ==
    LET aspect_ratio == fdiv(float(original_width), float(original_height))
        target_ratio == fdiv(float(THUMBNAIL_WIDTH), float(THUMBNAIL_HEIGHT))
    IN  IF fgreater(aspect_ratio, target_ratio)
        THEN [new_width |-> int(fmul(float(THUMBNAIL_HEIGHT), aspect_ratio)),
              new_height |-> THUMBNAIL_HEIGHT]
        ELSE [new_width |-> THUMBNAIL_WIDTH,
              new_height |-> int(fdiv(float(THUMBNAIL_WIDTH), aspect_ratio))]

\* the crop box taken from the top left corner
crop_box_corner(new_width, new_height) ==
    [left |-> 0, top |-> 0, right |-> THUMBNAIL_WIDTH, bottom |-> THUMBNAIL_HEIGHT]

\* the crop box given to img_resized.crop
crop_box(new_width, new_height) ==
    LET left == (new_width - THUMBNAIL_WIDTH) \div 2
        top == (new_height - THUMBNAIL_HEIGHT) \div 2
    IN  [left |-> left, top |-> top, right |-> left + THUMBNAIL_WIDTH,
         bottom |-> top + THUMBNAIL_HEIGHT]

NoThumb ==
    [st |-> "idle", width |-> 0, height |-> 0, new_width |-> 0, new_height |-> 0,
     box |-> [left |-> 0, top |-> 0, right |-> 0, bottom |-> 0],
     size |-> <<0, 0>>]

\* ------------------------------------------------- process_and_upload_image
\* What a call returns or raises, with what it did to the store: the variants
\* it called head_object and put_object for and the keys it wrote.
NoResult ==
    [raised |-> FALSE, skipped |-> FALSE, original_success |-> FALSE,
     thumbnail_success |-> FALSE, puts |-> {}, written |-> {},
     head_fault |-> FALSE, heads |-> {}, put_fault |-> FALSE]

\* What the caller of process_and_upload_image sees of a call.
Outcome(res) ==
    [raised |-> res.raised, skipped |-> res.skipped,
     original_success |-> res.original_success,
     thumbnail_success |-> res.thumbnail_success]

NoOutcome == Outcome(NoResult)

\* orc: what the collaborators do during this call
\*   qo, qt  head_object outcomes for the two keys
\*   uo, ut  put_object outcome scripts for the two uploads
\*   th      whether create_thumbnail returns data
Oracles(st, f, skip) ==
    [qo : IF skip THEN HeadOutcomes(st, original_key(f)) ELSE {"none"},
     qt : IF skip THEN HeadOutcomes(st, thumbnail_key(f)) ELSE {"none"},
     uo : PutScripts, ut : PutScripts, th : BOOLEAN]

\* the original uploaded whatever the query said
original_due_always(skip, original_exists) == TRUE

\* `if not skip_existing or not original_exists`
original_due(skip, original_exists) == ~skip \/ ~original_exists

\* the thumbnail handled only under skip_existing
thumbnail_due_on_skip(skip, thumbnail_exists) == skip /\ ~thumbnail_exists

\* `if not skip_existing or not thumbnail_exists`
thumbnail_due(skip, thumbnail_exists) == ~skip \/ ~thumbnail_exists

\* the thumbnail uploaded whatever create_thumbnail returned
thumbnail_put_blind(due, thumbnail_data) == due

\* `if thumbnail_data`: upload_file is called for the thumbnail
thumbnail_put(due, thumbnail_data) == due /\ thumbnail_data

\* the keys head_object was called for
head_calls(skip, first_raised) ==
    IF ~skip THEN {}
    ELSE IF first_raised THEN {"original"}
    ELSE {"original", "thumbnail"}

process_and_upload_image(f, skip, orc) ==
    LET eo == file_exists_in_spaces(orc.qo)
        et == file_exists_in_spaces(orc.qt)
        original_exists == skip /\ eo.value
        thumbnail_exists == skip /\ et.value
        up_o == upload_file(orc.uo, RetryCount)
        up_t == upload_file(orc.ut, RetryCount)
        do_o == original_due(skip, original_exists)
        do_t == thumbnail_due(skip, thumbnail_exists)
        put_t == thumbnail_put(do_t, orc.th)
        fault == skip /\ {orc.qo, orc.qt} \cap {"forbidden", "unexpected"} # {}
        heads == head_calls(skip, eo.raised)
        failed == \/ do_o /\ orc.uo[1] # "ok"
                  \/ do_t /\ (~orc.th \/ orc.ut[1] # "ok")
    IN  IF skip /\ (eo.raised \/ et.raised)
        THEN [NoResult EXCEPT !.raised = TRUE, !.head_fault = fault,
                              !.heads = heads]
        ELSE IF skip /\ original_exists /\ thumbnail_exists
        THEN [NoResult EXCEPT !.skipped = TRUE, !.original_success = TRUE,
                              !.thumbnail_success = TRUE, !.heads = heads]
        ELSE [raised |-> FALSE, skipped |-> FALSE, head_fault |-> fault,
              heads |-> heads, put_fault |-> failed,
              original_success |-> IF do_o THEN up_o.ok ELSE TRUE,
              thumbnail_success |-> IF do_t THEN (orc.th /\ up_t.ok) ELSE TRUE,
              puts |-> (IF do_o THEN {"original"} ELSE {})
                       \cup (IF put_t THEN {"thumbnail"} ELSE {}),
              written |-> (IF do_o /\ up_o.ok THEN {original_key(f)} ELSE {})
                          \cup (IF put_t /\ up_t.ok THEN {thumbnail_key(f)} ELSE {})]

\* Every way a call for file f can end against the bucket st.
Results(st, f, skip) ==
    {process_and_upload_image(f, skip, orc) : orc \in Oracles(st, f, skip)}

\* ------------------------------------------------------------------- Stats
ZeroStats ==
    [total_files |-> 0, successful_uploads |-> 0, failed_uploads |-> 0,
     skipped_files |-> 0]

ZeroTally == [successful_uploads |-> 0, failed_uploads |-> 0, skipped_files |-> 0]

NoTask == [st |-> "none", res |-> NoOutcome]

\* The counter _upload_sequential increments for a finished call.
seq_counter(res) ==
    IF res.raised THEN "failed_uploads"
    ELSE IF res.original_success /\ res.thumbnail_success THEN "successful_uploads"
    ELSE "failed_uploads"

\* the pool loop counting every finished future as a success
conc_counter_any(res) == "successful_uploads"

\* The counter _upload_concurrent increments for a finished future.
conc_counter(res) ==
    IF res.raised THEN "failed_uploads"
    ELSE IF res.original_success /\ res.thumbnail_success THEN "successful_uploads"
    ELSE "failed_uploads"

\* with self.stats_lock: self.stats[c] += 1, made for file f
Increment(c, f) ==
    /\ stats' = [stats EXCEPT ![c] = @ + 1]
    /\ tally' = [tally EXCEPT ![f][c] = @ + 1]

NoUpload ==
    [st |-> "idle", outs |-> <<>>, retry_count |-> 0, ok |-> FALSE,
     attempts |-> 0, variant_success |-> FALSE]

NoCall ==
    [st |-> "idle", skip |-> FALSE, store |-> {},
     orc |-> [qo |-> "none", qt |-> "none", uo |-> <<>>, ut |-> <<>>, th |-> FALSE],
     res |-> NoResult]

\* The threads that touch self.stats: the main thread (0) and, per file, the
\* pool thread that runs its task.
Threads == 0..MaxFiles

\* A thread outside `with self.stats_lock`. Inside, `at` is its position
\* (wait, held, loaded, stored), c the counter it increments, f the file the
\* increment is for and val the value it loaded.
NoReg == [at |-> "out", c |-> "none", f |-> 0, val |-> 0]

\* What head_object does for a key whatever the attempt: answer by the
\* bucket's contents, or raise.
HeadBehaviours == {"answer", "forbidden", "unexpected"}

\* the collaborators of a call that all do their work
OkBehaviour ==
    [qo |-> "answer", qt |-> "answer",
     uo |-> [i \in 1..RetryCount |-> "ok"],
     ut |-> [i \in 1..RetryCount |-> "ok"], th |-> TRUE]

\* The collaborators of the calls of a run, fixed per file: they all work, or
\* one of them fails in its own way.
Behaviours ==
    {OkBehaviour,
     [OkBehaviour EXCEPT !.qo = "forbidden"],
     [OkBehaviour EXCEPT !.qt = "unexpected"],
     [OkBehaviour EXCEPT !.uo = [i \in 1..RetryCount |-> "transient"]],
     [OkBehaviour EXCEPT !.ut = [i \in 1..RetryCount |->
                                    IF i = 1 THEN "unexpected" ELSE "ok"]],
     [OkBehaviour EXCEPT !.th = FALSE]}

NoWorld ==
    [store0 |-> {}, orc |-> [f \in Files |-> OkBehaviour], written |-> {}]

\* The record of the writes of a run: `writes` counts the put_object calls
\* that succeeded, as long as the run is `clean`, that is without skip_existing
\* and with no put_object call and no create_thumbnail failed so far. Every
\* other run is Stale.
Stale == [clean |-> FALSE, writes |-> 0]

\* the record after a call that ended in res
Written(rec, res) ==
    IF rec.clean /\ ~res.put_fault
    THEN [rec EXCEPT !.writes = @ + Cardinality(res.written)]
    ELSE Stale

\* ------------------------------------------------------------------- Init
RunInit ==
    /\ pc = "Idle"
    /\ nfiles \in 0..MaxFiles
    /\ skip_existing = TRUE
    /\ workers = 1
    /\ batch_size = 1
    /\ image_files = <<>>
    /\ stats = ZeroStats
    /\ store = {}
    /\ task = [f \in Files |-> NoTask]
    /\ idx = 0
    /\ batch_start = 0
    /\ interrupted = FALSE
    /\ summaries = 0
    /\ tally = [f \in Files |-> ZeroTally]
    /\ all_present = FALSE
    /\ put_attempted = FALSE
    /\ head_fault = FALSE
    /\ head_called = FALSE
    /\ fresh = Stale

Init ==
    /\ RunInit
    /\ up = NoUpload
    /\ call = NoCall
    /\ thumb = NoThumb
    /\ lock = {}
    /\ reg = [t \in Threads |-> NoReg]
    /\ runs = 0
    /\ world = NoWorld

\* ------------------------------------------------------------ the batches
\* the slice ending one file early
batch_end_short == Min(batch_start + batch_size, Len(image_files)) - 1

batch_end == Min(batch_start + batch_size, Len(image_files))

batch == {image_files[i] : i \in (batch_start + 1)..batch_end}

InState(s) == {f \in Files : task[f].st = s}

\* the batch loop going on as soon as the batch is submitted
batch_submitted == \A f \in batch : task[f].st # "none"

\* as_completed has yielded every future of the batch, so that the executor's
\* with block is left and range() gives the next batch.
batch_complete == \A f \in batch : task[f].st = "collected"

\* ---------------------------------------------------------------- actions
\* main: arguments parsed and validated, ImageUploader built, upload_directory
\* entered.
upload_directory ==
    /\ pc = "Idle"
    /\ \E s \in BOOLEAN, w \in 1..MaxWorkers, b \in 1..MaxBatch :
        /\ skip_existing' = s
        /\ workers' = w
        /\ batch_size' = b
    /\ pc' = "Scanning"
    /\ put_attempted' = FALSE
    /\ head_fault' = FALSE
    /\ head_called' = FALSE
    /\ fresh' = [clean |-> ~skip_existing', writes |-> 0]
    /\ UNCHANGED <<nfiles, image_files, stats, store, task, idx, batch_start,
                   interrupted, summaries, tally, all_present, aux_vars>>

\* upload_directory handing every non-empty list to the pool
after_scan_pool(files) ==
    IF Len(files) = 0 THEN "Done" ELSE "BatchLoop"

\* Where upload_directory goes once the list is known.
after_scan(files) ==
    IF Len(files) = 0 THEN "Done"
    ELSE IF workers = 1 THEN "Sequential" ELSE "BatchLoop"

\* get_image_files, total_files, the empty-list return and the workers branch.
get_image_files ==
    /\ pc = "Scanning"
    /\ image_files' = [i \in 1..nfiles |-> i]
    /\ stats' = [stats EXCEPT !.total_files = nfiles]
    /\ pc' = after_scan(image_files')
    /\ idx' = 0
    /\ batch_start' = 0
    /\ UNCHANGED <<nfiles, skip_existing, workers, batch_size, store, task,
                   interrupted, summaries, tally, all_present, put_attempted,
                   head_fault, head_called, fresh, aux_vars>>

\* _upload_sequential: the loop takes the next file and calls
\* process_and_upload_image in the main thread.
seq_call ==
    /\ pc = "Sequential"
    /\ idx < Len(image_files)
    /\ task[image_files[idx + 1]].st = "none"
    /\ task' = [task EXCEPT ![image_files[idx + 1]].st = "running"]
    /\ UNCHANGED <<pc, nfiles, skip_existing, workers, batch_size,
                   image_files, stats, store, idx, batch_start, interrupted,
                   summaries, tally, all_present, put_attempted, head_fault, head_called, fresh,
                   aux_vars>>

\* process_and_upload_image runs to its return (or raises); a full skip
\* increments skipped_files under the lock.
run_task(f) ==
    /\ task[f].st = "running"
    /\ \E res \in Results(store, f, skip_existing) :
        /\ task' = [task EXCEPT ![f] = [st |-> "done", res |-> Outcome(res)]]
        /\ store' = store \cup res.written
        /\ put_attempted' = (put_attempted \/ res.puts # {})
        /\ head_fault' = (head_fault \/ res.head_fault)
        /\ head_called' = (head_called \/ res.heads # {})
        /\ fresh' = Written(fresh, res)
        /\ IF res.skipped THEN Increment("skipped_files", f)
                          ELSE UNCHANGED <<stats, tally>>
    /\ UNCHANGED <<pc, nfiles, skip_existing, workers, batch_size,
                   image_files, idx, batch_start, interrupted, summaries,
                   all_present, aux_vars>>

\* the sequential loop letting an exception of the call through to main
seq_after_uncaught(res) ==
    IF res.raised THEN "Exited"
    ELSE IF idx + 1 = Len(image_files) THEN "Summarizing" ELSE "Sequential"

\* the sequential loop returning without the summary
seq_after_silent(res) ==
    IF idx + 1 = Len(image_files) THEN "Done" ELSE "Sequential"

\* Where the sequential loop goes after a call that returned or raised an
\* Exception: on to the next file, or out of the loop to the summary.
seq_after(res) ==
    IF idx + 1 = Len(image_files) THEN "Summarizing" ELSE "Sequential"

\* _upload_sequential: the outcome of the call is counted, pbar.update, and
\* the loop goes on or ends.
seq_record ==
    /\ pc = "Sequential"
    /\ idx < Len(image_files)
    /\ LET f == image_files[idx + 1] IN
        /\ task[f].st = "done"
        /\ Increment(seq_counter(task[f].res), f)
        /\ task' = [task EXCEPT ![f] = [st |-> "collected", res |-> NoOutcome]]
        /\ pc' = seq_after(task[f].res)
    /\ idx' = idx + 1
    /\ UNCHANGED <<nfiles, skip_existing, workers, batch_size, image_files,
                   store, batch_start, interrupted, summaries, all_present,
                   put_attempted, head_fault, head_called, fresh, aux_vars>>

\* _upload_concurrent: the executor is built and every file of the batch is
\* submitted to it.
submit ==
    /\ pc = "BatchLoop"
    /\ batch # {}
    /\ \A f \in batch : task[f].st = "none"
    /\ task' = [f \in Files |-> IF f \in batch THEN [task[f] EXCEPT !.st = "pending"]
                                              ELSE task[f]]
    /\ UNCHANGED <<pc, nfiles, skip_existing, workers, batch_size,
                   image_files, stats, store, idx, batch_start, interrupted,
                   summaries, tally, all_present, put_attempted, head_fault, head_called, fresh,
                   aux_vars>>

\* A pool thread takes the oldest work item; at most max_workers threads run.
\* The threads go on taking items while the main thread is in the executor's
\* __exit__.
worker_begin(f) ==
    /\ pc \in {"BatchLoop", "Unwinding"}
    /\ task[f].st = "pending"
    /\ \A g \in InState("pending") : f <= g
    /\ Cardinality(InState("running")) < workers
    /\ task' = [task EXCEPT ![f].st = "running"]
    /\ UNCHANGED <<pc, nfiles, skip_existing, workers, batch_size,
                   image_files, stats, store, idx, batch_start, interrupted,
                   summaries, tally, all_present, put_attempted, head_fault, head_called, fresh,
                   aux_vars>>

\* as_completed yields a finished future; its outcome is counted.
collect(f) ==
    /\ pc = "BatchLoop"
    /\ f \in batch
    /\ task[f].st = "done"
    /\ Increment(conc_counter(task[f].res), f)
    /\ task' = [task EXCEPT ![f] = [st |-> "collected", res |-> NoOutcome]]
    /\ UNCHANGED <<pc, nfiles, skip_existing, workers, batch_size,
                   image_files, store, idx, batch_start, interrupted,
                   summaries, all_present, put_attempted, head_fault, head_called, fresh, aux_vars>>

\* The as_completed loop and the executor's with block end; range() gives the
\* next batch or the loop ends.
next_batch ==
    /\ pc = "BatchLoop"
    /\ batch_complete
    /\ batch_start' = batch_start + batch_size
    /\ pc' = IF batch_start + batch_size >= Len(image_files)
             THEN "Summarizing" ELSE "BatchLoop"
    /\ UNCHANGED <<nfiles, skip_existing, workers, batch_size, image_files,
                   stats, store, task, idx, interrupted, summaries, tally,
                   all_present, put_attempted, head_fault, head_called, fresh, aux_vars>>

print_summary ==
    /\ pc = "Summarizing"
    /\ summaries' = summaries + 1
    /\ pc' = "Done"
    /\ UNCHANGED <<nfiles, skip_existing, workers, batch_size, image_files,
                   stats, store, task, idx, batch_start, interrupted, tally,
                   all_present, put_attempted, head_fault, head_called, fresh, aux_vars>>

\* KeyboardInterrupt in the main thread while scanning or between two calls of
\* the sequential loop: main's handler logs and exits.
interrupt_main ==
    /\ \/ pc = "Scanning"
       \/ pc = "Sequential" /\ InState("running") = {} /\ InState("done") = {}
    /\ interrupted' = TRUE
    /\ pc' = "Exited"
    /\ UNCHANGED <<nfiles, skip_existing, workers, batch_size, image_files,
                   stats, store, task, idx, batch_start, summaries, tally,
                   all_present, put_attempted, head_fault, head_called, fresh, aux_vars>>

\* KeyboardInterrupt inside the sequential call, or after it before its
\* outcome is counted: the call is abandoned; what it had already written
\* stays written (the original is uploaded first).
interrupt_call ==
    /\ pc = "Sequential"
    /\ \E f \in InState("running") \cup InState("done") :
        /\ IF task[f].st = "running"
           THEN \E res \in Results(store, f, skip_existing) :
                    \E w \in SUBSET (res.written \cap {original_key(f)}) :
                        /\ store' = store \cup w
                        /\ put_attempted' = (put_attempted \/ w # {})
           ELSE UNCHANGED <<store, put_attempted>>
        /\ task' = [task EXCEPT ![f] = [st |-> "aborted", res |-> NoOutcome]]
    /\ head_called' = (head_called \/ skip_existing)
    /\ fresh' = Stale
    /\ interrupted' = TRUE
    /\ pc' = "Exited"
    /\ UNCHANGED <<nfiles, skip_existing, workers, batch_size, image_files,
                   stats, idx, batch_start, summaries, tally, all_present,
                   head_fault, aux_vars>>

\* KeyboardInterrupt in the main thread inside _upload_concurrent: the
\* exception leaves the executor's with block through __exit__, that is
\* shutdown(wait=True).
interrupt_batch ==
    /\ pc = "BatchLoop"
    /\ interrupted' = TRUE
    /\ pc' = "Unwinding"
    /\ UNCHANGED <<nfiles, skip_existing, workers, batch_size, image_files,
                   stats, store, task, idx, batch_start, summaries, tally,
                   all_present, put_attempted, head_fault, head_called, fresh, aux_vars>>

\* shutdown(wait=True) returns when the work queue is drained and the threads
\* have ended; the exception reaches main's handler, which logs and exits.
unwound ==
    /\ pc = "Unwinding"
    /\ InState("pending") = {}
    /\ InState("running") = {}
    /\ pc' = "Exited"
    /\ UNCHANGED <<nfiles, skip_existing, workers, batch_size, image_files,
                   stats, store, task, idx, batch_start, interrupted,
                   summaries, tally, all_present, put_attempted, head_fault, head_called, fresh,
                   aux_vars>>

\* The script is run again: a new process, a new ImageUploader, the same
\* bucket and directory.
restart ==
    /\ pc \in {"Done", "Exited"}
    /\ pc' = "Idle"
    /\ image_files' = <<>>
    /\ stats' = ZeroStats
    /\ task' = [f \in Files |-> NoTask]
    /\ idx' = 0
    /\ batch_start' = 0
    /\ interrupted' = FALSE
    /\ summaries' = 0
    /\ tally' = [f \in Files |-> ZeroTally]
    /\ all_present' = (pc = "Done" /\ nfiles > 0 /\ AllKeys \subseteq store)
    /\ put_attempted' = FALSE
    /\ head_fault' = FALSE
    /\ head_called' = FALSE
    /\ fresh' = Stale
    /\ skip_existing' = TRUE
    /\ workers' = 1
    /\ batch_size' = 1
    /\ UNCHANGED <<nfiles, store, aux_vars>>

\* The steps the program takes by itself.
Progress ==
    \/ get_image_files
    \/ seq_call
    \/ \E f \in Files : run_task(f)
    \/ seq_record
    \/ submit
    \/ \E f \in Files : worker_begin(f)
    \/ \E f \in Files : collect(f)
    \/ next_batch
    \/ print_summary
    \/ unwound

Next ==
    \/ upload_directory
    \/ get_image_files
    \/ seq_call
    \/ \E f \in Files : run_task(f)
    \/ seq_record
    \/ submit
    \/ \E f \in Files : worker_begin(f)
    \/ \E f \in Files : collect(f)
    \/ next_batch
    \/ print_summary
    \/ interrupt_main
    \/ interrupt_call
    \/ interrupt_batch
    \/ unwound
    \/ restart

Spec == Init /\ [][Next]_vars

\* The main thread and the pool threads are scheduled and every call of the
\* store returns or raises (its client times out); interrupts and new runs of
\* the script are up to the user.
LiveSpec == Init /\ [][Next]_vars /\ WF_vars(Progress)

\* ------------------------------------------------------------- UploadSpec
\* upload_file is called with a script of put_object outcomes, one per attempt.
UploadInit ==
    /\ RunInit
    /\ nfiles = 0
    /\ call = NoCall
    /\ thumb = NoThumb
    /\ lock = {}
    /\ reg = [t \in Threads |-> NoReg]
    /\ runs = 0
    /\ world = NoWorld
    /\ \E r \in 1..MaxRetry :
        up \in [st : {"called"}, outs : [1..r -> PutOutcomes], retry_count : {r},
                ok : {FALSE}, attempts : {0}, variant_success : {FALSE}]

\* upload_file returns; the caller stores the value in original_success or
\* thumbnail_success.
upload_return ==
    /\ up.st = "called"
    /\ LET ret == upload_file(up.outs, up.retry_count) IN
        up' = [up EXCEPT !.st = "returned", !.ok = ret.ok,
                         !.attempts = ret.attempts, !.variant_success = ret.ok]
    /\ UNCHANGED <<run_vars, call, thumb, lock, reg, runs, world>>

UploadNext == upload_return

UploadSpec == UploadInit /\ [][UploadNext]_vars

\* --------------------------------------------------------------- TaskSpec
\* process_and_upload_image is called for file 1 against a bucket holding any
\* of its two keys.
TaskInit ==
    /\ RunInit
    /\ nfiles = 0
    /\ up = NoUpload
    /\ thumb = NoThumb
    /\ lock = {}
    /\ reg = [t \in Threads |-> NoReg]
    /\ runs = 0
    /\ world = NoWorld
    /\ \E sk \in BOOLEAN, st \in SUBSET {original_key(1), thumbnail_key(1)} :
        \E orc \in Oracles(st, 1, sk) :
            call = [st |-> "called", skip |-> sk, store |-> st, orc |-> orc,
                    res |-> NoResult]

task_return ==
    /\ call.st = "called"
    /\ call' = [call EXCEPT !.st = "returned",
                    !.res = process_and_upload_image(1, call.skip, call.orc)]
    /\ UNCHANGED <<run_vars, up, thumb, lock, reg, runs, world>>

TaskNext == task_return

TaskSpec == TaskInit /\ [][TaskNext]_vars

\* --------------------------------------------------------------- LockSpec
\* One run of upload_directory with `with self.stats_lock: self.stats[c] += 1`
\* taken apart: the lock is acquired, the counter is loaded, the sum is stored,
\* the lock is released. The bucket holds both keys of any of the files, so
\* that pool threads count skipped files while the main thread counts
\* outcomes.
StoredFiles(S) == {original_key(f) : f \in S} \cup {thumbnail_key(f) : f \in S}

LockInit ==
    /\ pc = "Idle"
    /\ nfiles \in 0..MaxFiles
    /\ skip_existing = TRUE
    /\ workers = 1
    /\ batch_size = 1
    /\ image_files = <<>>
    /\ stats = ZeroStats
    /\ store \in {StoredFiles(S) : S \in SUBSET (1..nfiles)}
    /\ task = [f \in Files |-> NoTask]
    /\ idx = 0
    /\ batch_start = 0
    /\ interrupted = FALSE
    /\ summaries = 0
    /\ tally = [f \in Files |-> ZeroTally]
    /\ all_present = FALSE
    /\ put_attempted = FALSE
    /\ head_fault = FALSE
    /\ head_called = FALSE
    /\ fresh = Stale
    /\ up = NoUpload
    /\ call = NoCall
    /\ thumb = NoThumb
    /\ lock = {}
    /\ reg = [t \in Threads |-> NoReg]
    /\ runs = 0
    /\ world = NoWorld

\* the history variables of the other specifications
history_vars == <<all_present, put_attempted, head_fault, head_called, fresh>>

\* Thread t comes to `with self.stats_lock` to increment c for file f.
Enter(t, c, f) ==
    /\ reg' = [reg EXCEPT ![t] = [at |-> "wait", c |-> c, f |-> f, val |-> 0]]
    /\ tally' = [tally EXCEPT ![f][c] = @ + 1]

\* process_and_upload_image in the thread of file f, up to its return or to
\* the lock of the skip branch.
lk_run_task(f) ==
    /\ task[f].st = "running"
    /\ reg[f].at = "out"
    /\ \E res \in Results(store, f, skip_existing) :
        /\ store' = store \cup res.written
        /\ IF res.skipped
           THEN /\ task' = [task EXCEPT ![f].res = Outcome(res)]
                /\ Enter(f, "skipped_files", f)
           ELSE /\ task' = [task EXCEPT ![f] = [st |-> "done", res |-> Outcome(res)]]
                /\ UNCHANGED <<reg, tally>>
    /\ UNCHANGED <<pc, nfiles, skip_existing, workers, batch_size, image_files,
                   stats, idx, batch_start, interrupted, summaries,
                   history_vars, up, call, thumb, lock, runs, world>>

\* _upload_sequential: the call has returned or raised; the main thread comes
\* to the lock with the counter of the outcome.
lk_seq_record ==
    /\ pc = "Sequential"
    /\ idx < Len(image_files)
    /\ reg[0].at = "out"
    /\ LET f == image_files[idx + 1] IN
        /\ task[f].st = "done"
        /\ Enter(0, seq_counter(task[f].res), f)
    /\ UNCHANGED <<pc, nfiles, skip_existing, workers, batch_size, image_files,
                   stats, store, task, idx, batch_start, interrupted, summaries,
                   history_vars, up, call, thumb, lock, runs, world>>

\* _upload_concurrent: as_completed yields a finished future; the main thread
\* comes to the lock with the counter of the outcome.
lk_collect(f) ==
    /\ pc = "BatchLoop"
    /\ f \in batch
    /\ reg[0].at = "out"
    /\ task[f].st = "done"
    /\ Enter(0, conc_counter(task[f].res), f)
    /\ UNCHANGED <<pc, nfiles, skip_existing, workers, batch_size, image_files,
                   stats, store, task, idx, batch_start, interrupted, summaries,
                   history_vars, up, call, thumb, lock, runs, world>>

\* a lock anyone can take
lock_ignored == TRUE

\* threading.Lock: acquire blocks while another thread holds the lock
lock_free == lock = {}

\* __enter__ of the lock
lk_acquire(t) ==
    /\ reg[t].at = "wait"
    /\ lock_free
    /\ lock' = lock \cup {t}
    /\ reg' = [reg EXCEPT ![t].at = "held"]
    /\ UNCHANGED <<run_vars, up, call, thumb, runs, world>>

\* self.stats[c] is read
lk_load(t) ==
    /\ reg[t].at = "held"
    /\ reg' = [reg EXCEPT ![t].at = "loaded", ![t].val = stats[reg[t].c]]
    /\ UNCHANGED <<run_vars, up, call, thumb, lock, runs, world>>

\* the sum is stored in self.stats[c]
lk_store(t) ==
    /\ reg[t].at = "loaded"
    /\ stats' = [stats EXCEPT ![reg[t].c] = reg[t].val + 1]
    /\ reg' = [reg EXCEPT ![t].at = "stored"]
    /\ UNCHANGED <<pc, nfiles, skip_existing, workers, batch_size, image_files,
                   store, task, idx, batch_start, interrupted, summaries,
                   tally, history_vars, up, call, thumb, lock, runs, world>>

\* __exit__ of the lock, and what the thread does next: the task returns
\* (True, True), or the main thread's loop goes on with the next future or
\* the next file.
lk_release(t) ==
    /\ reg[t].at = "stored"
    /\ lock' = lock \ {t}
    /\ reg' = [reg EXCEPT ![t] = NoReg]
    /\ LET f == reg[t].f IN
        IF t # 0
        THEN /\ task' = [task EXCEPT ![f].st = "done"]
             /\ UNCHANGED <<pc, idx>>
        ELSE /\ task' = [task EXCEPT ![f] = [st |-> "collected", res |-> NoOutcome]]
             /\ IF pc = "Sequential"
                THEN /\ pc' = seq_after(task[f].res)
                     /\ idx' = idx + 1
                ELSE UNCHANGED <<pc, idx>>
    /\ UNCHANGED <<nfiles, skip_existing, workers, batch_size, image_files,
                   stats, store, batch_start, interrupted, summaries, tally,
                   history_vars, up, call, thumb, runs, world>>

LockNext ==
    \/ upload_directory
    \/ get_image_files
    \/ seq_call
    \/ \E f \in Files : lk_run_task(f)
    \/ lk_seq_record
    \/ submit
    \/ \E f \in Files : worker_begin(f)
    \/ \E f \in Files : lk_collect(f)
    \/ \E t \in Threads : lk_acquire(t)
    \/ \E t \in Threads : lk_load(t)
    \/ \E t \in Threads : lk_store(t)
    \/ \E t \in Threads : lk_release(t)
    \/ next_batch
    \/ print_summary

LockSpec == LockInit /\ [][LockNext]_vars

\* -------------------------------------------------------------- ReuseSpec
\* upload_directory is a public method: a caller that keeps the ImageUploader
\* can call it again, on the same or on another directory. Nothing but
\* __init__ sets the outcome counters to zero; the new call assigns
\* total_files and starts its loop from the counters the last call left.
upload_directory_again ==
    /\ pc = "Done"
    /\ runs + 1 < MaxRuns
    /\ runs' = runs + 1
    /\ \E s \in BOOLEAN, w \in 1..MaxWorkers, b \in 1..MaxBatch :
        /\ skip_existing' = s
        /\ workers' = w
        /\ batch_size' = b
    /\ nfiles' \in 0..MaxFiles
    /\ pc' = "Scanning"
    /\ image_files' = <<>>
    /\ task' = [f \in Files |-> NoTask]
    /\ idx' = 0
    /\ batch_start' = 0
    /\ tally' = [f \in Files |-> ZeroTally]
    /\ put_attempted' = FALSE
    /\ head_fault' = FALSE
    /\ head_called' = FALSE
    /\ fresh' = Stale
    /\ UNCHANGED <<stats, store, interrupted, summaries, all_present,
                   up, call, thumb, lock, reg, world>>

ReuseNext ==
    \/ upload_directory
    \/ get_image_files
    \/ seq_call
    \/ \E f \in Files : run_task(f)
    \/ seq_record
    \/ submit
    \/ \E f \in Files : worker_begin(f)
    \/ \E f \in Files : collect(f)
    \/ next_batch
    \/ print_summary
    \/ upload_directory_again

ReuseSpec == Init /\ [][ReuseNext]_vars

\* --------------------------------------------------------------- PathSpec
\* One run of upload_directory in a world fixed before it starts: the bucket
\* holds none, the original or both keys of each file, and what head_object,
\* put_object and create_thumbnail do depends on the key (the file) and the
\* attempt only. The run takes the sequential or the pool path by its
\* arguments; the world records the keys it wrote.
StoredOf(f) == {{}, {original_key(f)}, {original_key(f), thumbnail_key(f)}}

RECURSIVE Buckets(_)
Buckets(n) ==
    IF n = 0 THEN {{}}
    ELSE {b \cup own : b \in Buckets(n - 1), own \in StoredOf(n)}

Worlds(n) ==
    {[store0 |-> b, orc |-> o, written |-> {}] :
        b \in Buckets(n),
        o \in {x \in [Files -> Behaviours] :
                \A f \in Files : f > n => x[f] = OkBehaviour}}

\* head_object for a key in the bucket st
Answer(st, key, h) ==
    IF h = "answer" THEN (IF key \in st THEN "found" ELSE "not_found") ELSE h

\* what the collaborators do during the call for file f against the bucket st
Orc(st, f, skip, b) ==
    [qo |-> IF skip THEN Answer(st, original_key(f), b.qo) ELSE "none",
     qt |-> IF skip THEN Answer(st, thumbnail_key(f), b.qt) ELSE "none",
     uo |-> b.uo, ut |-> b.ut, th |-> b.th]

PathInit ==
    /\ pc = "Idle"
    /\ nfiles \in 0..MaxFiles
    /\ skip_existing = TRUE
    /\ workers = 1
    /\ batch_size = 1
    /\ image_files = <<>>
    /\ stats = ZeroStats
    /\ world \in Worlds(nfiles)
    /\ store = world.store0
    /\ task = [f \in Files |-> NoTask]
    /\ idx = 0
    /\ batch_start = 0
    /\ interrupted = FALSE
    /\ summaries = 0
    /\ tally = [f \in Files |-> ZeroTally]
    /\ all_present = FALSE
    /\ put_attempted = FALSE
    /\ head_fault = FALSE
    /\ head_called = FALSE
    /\ fresh = Stale
    /\ up = NoUpload
    /\ call = NoCall
    /\ thumb = NoThumb
    /\ lock = {}
    /\ reg = [t \in Threads |-> NoReg]
    /\ runs = 0

\* process_and_upload_image for file f, in the main thread or a pool thread,
\* with the collaborators of the world; a full skip increments skipped_files
\* under the lock.
world_task(f) ==
    /\ task[f].st = "running"
    /\ LET res == process_and_upload_image(
                      f, skip_existing,
                      Orc(store, f, skip_existing, world.orc[f])) IN
        /\ task' = [task EXCEPT ![f] = [st |-> "done", res |-> Outcome(res)]]
        /\ store' = store \cup res.written
        /\ world' = [world EXCEPT !.written = @ \cup res.written]
        /\ IF res.skipped THEN Increment("skipped_files", f)
                          ELSE UNCHANGED <<stats, tally>>
    /\ UNCHANGED <<pc, nfiles, skip_existing, workers, batch_size,
                   image_files, idx, batch_start, interrupted, summaries,
                   history_vars, up, call, thumb, lock, reg, runs>>

PathNext ==
    \/ upload_directory
    \/ get_image_files
    \/ seq_call
    \/ \E f \in Files : world_task(f)
    \/ seq_record
    \/ submit
    \/ \E f \in Files : worker_begin(f)
    \/ \E f \in Files : collect(f)
    \/ next_batch
    \/ print_summary

PathSpec == PathInit /\ [][PathNext]_vars

\* _upload_sequential as a function: the files from the i-th on are processed
\* in list order from the bucket, the counters and the written keys `acc`.
RECURSIVE sequential_from(_, _, _, _, _)
sequential_from(i, n, skip, orc, acc) ==
    IF i > n THEN acc
    ELSE LET res == process_and_upload_image(
                        i, skip, Orc(acc.store, i, skip, orc[i]))
             skipped == IF res.skipped THEN 1 ELSE 0
             counter == seq_counter(Outcome(res))
             counted == [acc.stats EXCEPT !.skipped_files = @ + skipped,
                                          ![counter] = @ + 1]
         IN  sequential_from(i + 1, n, skip, orc,
                             [store |-> acc.store \cup res.written,
                              stats |-> counted,
                              written |-> acc.written \cup res.written])

\* what upload_directory with workers = 1 leaves of n files in the world w
sequential_run(n, skip, w) ==
    sequential_from(1, n, skip, w.orc,
                    [store |-> w.store0,
                     stats |-> [ZeroStats EXCEPT !.total_files = n],
                     written |-> {}])

\* -------------------------------------------------------------- ThumbSpec
\* create_thumbnail is called on an image of every size up to MaxDim.
ThumbInit ==
    /\ RunInit
    /\ nfiles = 0
    /\ up = NoUpload
    /\ call = NoCall
    /\ lock = {}
    /\ reg = [t \in Threads |-> NoReg]
    /\ runs = 0
    /\ world = NoWorld
    /\ \E w \in 1..MaxDim, h \in 1..MaxDim :
        thumb = [NoThumb EXCEPT !.st = "called", !.width = w, !.height = h]

\* create_thumbnail resizes, crops and returns the thumbnail; crop gives an
\* image of the size of its box.
create_thumbnail ==
    /\ thumb.st = "called"
    /\ \E new \in {scaled_size(thumb.width, thumb.height)} :
        \E box \in {crop_box(new.new_width, new.new_height)} :
            thumb' = [thumb EXCEPT !.st = "returned",
                         !.new_width = new.new_width,
                         !.new_height = new.new_height,
                         !.box = box,
                         !.size = <<box.right - box.left, box.bottom - box.top>>]
    /\ UNCHANGED <<run_vars, up, call, lock, reg, runs, world>>

ThumbNext == create_thumbnail

ThumbSpec == ThumbInit /\ [][ThumbNext]_vars

\* ================================================================= claims
Counted ==
    stats.successful_uploads + stats.failed_uploads + stats.skipped_files

\* C1: after every run of upload_directory the counters satisfy
\* successful_uploads + failed_uploads + skipped_files = total_files.
C1_SumInvariant == pc = "Done" => Counted = stats.total_files

\* C2: after a run that ended with both keys of every file in the bucket, a
\* second run with skip_existing, the store answering its queries, makes no
\* put attempt and ends with skipped_files = total_files,
\* successful_uploads = 0 and failed_uploads = 0.
C2_IdempotentRerun ==
    (pc = "Done" /\ skip_existing /\ all_present /\ ~head_fault) =>
        /\ ~put_attempted
        /\ stats.skipped_files = stats.total_files
        /\ stats.successful_uploads = 0
        /\ stats.failed_uploads = 0

\* The batch a file of the sorted list belongs to (files are their own index).
BatchOf(f) == (f - 1) \div batch_size

Begun(f) == task[f].st \in {"running", "done", "collected", "aborted"}

Completed(f) == task[f].st \in {"done", "collected"}

TransientThenOk ==
    /\ \A i \in 1..(up.retry_count - 1) : up.outs[i] = "transient"
    /\ up.outs[up.retry_count] = "ok"

\* C4: an upload whose put fails transiently retry_count - 1 times and then
\* succeeds returns success after retry_count attempts, and the variant is
\* recorded as succeeded.
C4_RetryLastAttempt ==
    (up.st = "returned" /\ TransientThenOk) =>
        /\ up.ok
        /\ up.variant_success
        /\ up.attempts = up.retry_count

C4_Witness ==
    /\ up.st = "returned"
    /\ up.retry_count = RetryCount
    /\ TransientThenOk
    /\ up.ok
    /\ up.attempts = RetryCount

\* C5: the first permanent store error of a put ends the retry loop: no
\* attempt follows it (one attempt when it comes first) and the variant failed.
C5_PermanentNotRetried ==
    up.st = "returned" =>
        \A i \in 1..up.retry_count :
            (up.outs[i] = "permanent" /\ \A j \in 1..(i - 1) : up.outs[j] = "transient")
                => (up.attempts = i /\ ~up.ok /\ ~up.variant_success)

Erroring(res) == res.raised \/ ~(res.original_success /\ res.thumbnail_success)

OneFailure == [ZeroTally EXCEPT !.failed_uploads = 1]

\* C6: an error in the processing of one file does not end the loop or the
\* pool: the file is counted as exactly one failure, the run goes on, and
\* summary time is reached with every file counted.
C6_ErrorContained ==
    /\ [](pc \in {"Summarizing", "Done"} =>
            \A f \in 1..Len(image_files) : task[f].st = "collected")
    /\ [][\A f \in Files :
            (task[f].st = "done" /\ Erroring(task[f].res) /\ task'[f].st = "collected")
                => /\ tally'[f] = OneFailure
                   /\ pc' \in {"Sequential", "BatchLoop", "Summarizing"}
                   /\ \A g \in Files \ {f} : task'[g] = task[g]]_vars

\* in the pool, the first file failed and was counted once, and the second
\* was uploaded
C6_Witness ==
    /\ pc = "Done"
    /\ workers > 1
    /\ Len(image_files) >= 2
    /\ tally[1] = OneFailure
    /\ tally[2].successful_uploads = 1

PhaseOrder ==
    \/ pc' = pc
    \/ pc = "Idle" /\ pc' = "Scanning"
    \/ pc = "Scanning" /\ pc' \in {"Sequential", "BatchLoop", "Exited"}
    \/ pc = "Scanning" /\ pc' = "Done" /\ nfiles = 0
    \/ pc = "Sequential" /\ pc' \in {"Summarizing", "Exited"}
    \/ pc = "BatchLoop" /\ pc' \in {"Summarizing", "Unwinding"}
    \/ pc = "Unwinding" /\ pc' = "Exited"
    \/ pc = "Summarizing" /\ pc' = "Done"
    \/ pc \in {"Done", "Exited"} /\ pc' = "Idle"

\* C7 (amended): a run that is not interrupted reaches Done in the order
\* Idle, Scanning, Sequential or BatchLoop, Summarizing, Done, having emitted
\* the summary exactly once when the file list is not empty; with an empty
\* list it goes from Scanning to Done and emits no summary.
C7_SummaryThenDone ==
    /\ [][PhaseOrder]_vars
    /\ [](pc = "Done" => summaries = IF nfiles = 0 THEN 0 ELSE 1)
    /\ [](pc \in {"Scanning", "Sequential", "BatchLoop"} => summaries = 0)
    /\ (pc = "Scanning") ~> (pc = "Done" \/ interrupted)

\* a run over some files with a failed file has emitted its summary
C7_Witness ==
    /\ pc = "Done"
    /\ nfiles > 0
    /\ summaries = 1
    /\ stats.failed_uploads > 0

\* C7 as claimed: every uninterrupted run, the empty one included, has emitted
\* the summary once when it is Done.
C7_SummaryAlways == pc = "Done" => summaries = 1

\* C8: a run interrupted during the sequential loop or a batch (the list is
\* scanned by then) has emitted the summary when the process exits.
C8_SummaryOnInterrupt ==
    (pc = "Exited" /\ interrupted /\ Len(image_files) > 0) => summaries >= 1

\* C9: once the interrupt has arrived no task that was not executing begins,
\* the tasks in flight have ended when the process exits, and every counter
\* holds the increments made to it.
C9_NoNewWorkAfterInterrupt ==
    /\ [][interrupted =>
            \A f \in Files :
                task[f].st \in {"none", "pending"} => task'[f].st = task[f].st]_vars
    /\ []((pc = "Exited" /\ interrupted) => InState("running") = {})
    /\ [](\A c \in {"successful_uploads", "failed_uploads", "skipped_files"} :
            stats[c] = Cardinality({f \in Files : tally[f][c] = 1})
            /\ \A f \in Files : tally[f][c] <= 1)

HeadErrors == {"not_found", "forbidden", "unexpected"}

\* C10: whatever error the existence query of a key ends in, the call does not
\* raise and goes on to upload that key.
C10_ExistsNeverRaises ==
    (call.st = "returned" /\ call.skip) =>
        /\ ~call.res.raised
        /\ call.orc.qo \in HeadErrors => "original" \in call.res.puts
        /\ (call.orc.qt \in HeadErrors /\ call.orc.th) => "thumbnail" \in call.res.puts

\* the image is strictly wider than the thumbnail's 2:3
Wider == thumb.width * THUMBNAIL_HEIGHT > thumb.height * THUMBNAIL_WIDTH

\* C13: for every image size the resized image covers the thumbnail
\* (new_width >= 200 and new_height >= 300), the crop box lies inside the
\* resized image, and the thumbnail is exactly 200 x 300.
C13_ThumbnailCovers ==
    thumb.st = "returned" =>
        /\ thumb.new_width >= THUMBNAIL_WIDTH
        /\ thumb.new_height >= THUMBNAIL_HEIGHT
        /\ 0 <= thumb.box.left
        /\ 0 <= thumb.box.top
        /\ thumb.box.right <= thumb.new_width
        /\ thumb.box.bottom <= thumb.new_height
        /\ thumb.size = <<THUMBNAIL_WIDTH, THUMBNAIL_HEIGHT>>

\* a tall image was resized to more than 300 rows and cropped top and bottom
C13_Witness ==
    /\ thumb.st = "returned"
    /\ ~Wider
    /\ thumb.new_height > THUMBNAIL_HEIGHT
    /\ thumb.box.top > 0

\* C14: for an image strictly wider than 2:3 the resized height is exactly
\* 300, nothing is cropped at the top or the bottom, and the columns cropped
\* on the left and on the right differ by at most one.
C14_WideCropCentred ==
    (thumb.st = "returned" /\ Wider) =>
        /\ thumb.new_height = THUMBNAIL_HEIGHT
        /\ thumb.box.top = 0
        /\ thumb.box.bottom = thumb.new_height
        /\ (thumb.new_width - thumb.box.right) - thumb.box.left \in {0, 1}

\* a wide image with an odd number of columns to crop
C14_Witness ==
    /\ thumb.st = "returned"
    /\ Wider
    /\ (thumb.new_width - THUMBNAIL_WIDTH) % 2 = 1
    /\ thumb.new_width - thumb.box.right = thumb.box.left + 1

\* n / d rounded to the nearest integer
Rounded(n, d) == (2 * n + d) \div (2 * d)

\* C20: the resized width of a wide image is round(H * width / height) with
\* height H; otherwise the resized height is round(W * height / width) with
\* width W.
C20_ScaledSizeRounded ==
    thumb.st = "returned" =>
        IF Wider
        THEN /\ thumb.new_height = THUMBNAIL_HEIGHT
             /\ thumb.new_width = Rounded(THUMBNAIL_HEIGHT * thumb.width, thumb.height)
        ELSE /\ thumb.new_width = THUMBNAIL_WIDTH
             /\ thumb.new_height = Rounded(THUMBNAIL_WIDTH * thumb.height, thumb.width)

\* what the existence queries of the call under test reported
OriginalFound == call.skip /\ call.orc.qo = "found"

ThumbnailFound == call.skip /\ call.orc.qt = "found"

\* the call under test went on to the uploads
Uploading == call.st = "returned" /\ ~call.res.raised /\ ~call.res.skipped

\* C11: when create_thumbnail fails no put is attempted for the thumbnail key
\* and thumbnail_success is false, while the original is still uploaded and
\* original_success is the result of its upload alone; and whatever the
\* original's upload gave, a thumbnail that is generated is uploaded and
\* thumbnail_success is the result of its upload alone.
C11_VariantIndependence ==
    Uploading =>
        /\ (~ThumbnailFound /\ ~call.orc.th) =>
                /\ "thumbnail" \notin call.res.puts
                /\ ~call.res.thumbnail_success
        /\ ~OriginalFound =>
                /\ "original" \in call.res.puts
                /\ call.res.original_success = upload_file(call.orc.uo, RetryCount).ok
        /\ (~ThumbnailFound /\ call.orc.th) =>
                /\ "thumbnail" \in call.res.puts
                /\ call.res.thumbnail_success = upload_file(call.orc.ut, RetryCount).ok

\* the thumbnail could not be generated and the original was uploaded
C11_Witness ==
    /\ Uploading
    /\ ~call.orc.th
    /\ call.res.puts = {"original"}
    /\ call.res.original_success
    /\ ~call.res.thumbnail_success
    /\ call.res.written = {original_key(1)}

\* exactly one of the two keys is in the bucket and the queries say so
OneKeyPresent ==
    /\ call.skip
    /\ Cardinality(call.store) = 1
    /\ call.orc.qo = (IF original_key(1) \in call.store THEN "found" ELSE "not_found")
    /\ call.orc.qt = (IF thumbnail_key(1) \in call.store THEN "found" ELSE "not_found")

\* C17: with skip_existing and exactly one of the two keys in the bucket, no
\* put is attempted on the existing key and its variant is reported as
\* succeeded, while the missing variant is uploaded by upload_file and its
\* reported result is the result of that upload (the missing thumbnail being
\* generated).
C17_PartialSkip ==
    (call.st = "returned" /\ OneKeyPresent) =>
        /\ ~call.res.raised
        /\ ~call.res.skipped
        /\ original_key(1) \in call.store =>
                /\ "original" \notin call.res.puts
                /\ call.res.original_success
                /\ call.orc.th =>
                    /\ "thumbnail" \in call.res.puts
                    /\ call.res.thumbnail_success
                            = upload_file(call.orc.ut, RetryCount).ok
        /\ thumbnail_key(1) \in call.store =>
                /\ "thumbnail" \notin call.res.puts
                /\ call.res.thumbnail_success
                /\ "original" \in call.res.puts
                /\ call.res.original_success = upload_file(call.orc.uo, RetryCount).ok

\* the original was there, the thumbnail was uploaded on the last attempt
C17_Witness ==
    /\ call.st = "returned"
    /\ OneKeyPresent
    /\ original_key(1) \in call.store
    /\ call.orc.th
    /\ call.orc.ut[RetryCount - 1] = "transient"
    /\ call.res.puts = {"thumbnail"}
    /\ call.res.written = {thumbnail_key(1)}
    /\ call.res.original_success
    /\ call.res.thumbnail_success

\* every attempt of the script fails with a transient store error
AllTransient == \A i \in 1..up.retry_count : up.outs[i] = "transient"

\* C18: upload_file calls put_object at most retry_count times, whatever the
\* store does; when every attempt fails with a transient store error it makes
\* retry_count attempts and returns failure to its caller (it does not raise),
\* and the variant is recorded as failed.
C18_RetryUpperBound ==
    up.st = "returned" =>
        /\ up.attempts <= up.retry_count
        /\ AllTransient =>
                /\ up.attempts = up.retry_count
                /\ ~up.ok
                /\ ~up.variant_success

\* the default three attempts all failed
C18_Witness ==
    /\ up.st = "returned"
    /\ up.retry_count = RetryCount
    /\ AllTransient
    /\ up.attempts = RetryCount
    /\ ~up.ok

\* C12: without skip_existing no existence query is made, whatever the bucket
\* holds; and when every put and every thumbnail generation of the run has
\* succeeded, the run over n files has made exactly 2n writes, one per key,
\* and ends with total_files = n, successful_uploads = n, failed_uploads = 0
\* and skipped_files = 0.
C12_NoSkipWritesAll ==
    /\ (~skip_existing /\ pc # "Idle") => ~head_called
    /\ (pc = "Done" /\ ~skip_existing /\ fresh.clean) =>
            /\ fresh.writes = 2 * nfiles
            /\ AllKeys \subseteq store
            /\ stats = [total_files |-> nfiles, successful_uploads |-> nfiles,
                        failed_uploads |-> 0, skipped_files |-> 0]

\* the pool has written every key again over a bucket that held them all
C12_Witness ==
    /\ pc = "Done"
    /\ ~skip_existing
    /\ workers > 1
    /\ all_present
    /\ fresh.clean
    /\ nfiles = MaxFiles
    /\ fresh.writes = 2 * MaxFiles
    /\ stats.successful_uploads = MaxFiles

\* the files a step submits to the executor
Submits == {f \in Files : task[f].st = "none" /\ task'[f].st = "pending"}

\* the files submitted before the step, which are the first of the list
Handed == {f \in Files : task[f].st # "none"}

OutcomeCounters == {"successful_uploads", "failed_uploads", "skipped_files"}

\* the increments of counter c the threads have come to the lock with
Issued(c) ==
    Cardinality({f \in Files : tally[f][c] >= 1})
        + Cardinality({f \in Files : tally[f][c] >= 2})

StatsCounters ==
    {"total_files", "successful_uploads", "failed_uploads", "skipped_files"}

\* C15: when upload_directory starts, on a new ImageUploader or again on the
\* same one, all four counters are zero, and no step of any run makes a
\* counter smaller.
C15_StatsLifecycle ==
    /\ [](pc = "Scanning" => stats = ZeroStats)
    /\ [][\A c \in StatsCounters : stats'[c] >= stats[c]]_vars

\* the loop has counted the outcome of file f
Recorded(f) ==
    /\ task[f].st = "collected"
    /\ tally[f].successful_uploads + tally[f].failed_uploads = 1

\* a call of process_and_upload_image for file f begins
Begins(f) == task[f].st # "running" /\ task'[f].st = "running"

\* C21: with workers = 1 the run takes the sequential path and never the
\* pool; at most one call is open; the call for a file begins only when it
\* is the next of the sorted list and every file before it is finished and
\* counted; and that is so for every batch_size, the batch position never
\* moving.
C21_SequentialPath ==
    /\ [](pc = "BatchLoop" => workers > 1)
    /\ [](workers = 1 =>
            /\ Cardinality(InState("pending")) = 0
            /\ Cardinality(InState("running") \cup InState("done")) <= 1
            /\ batch_start = 0)
    /\ [][\A f \in Files :
            Begins(f) /\ workers = 1 =>
                /\ pc = "Sequential"
                /\ f = image_files[idx + 1]
                /\ \A i \in 1..Len(image_files) :
                    /\ i < idx + 1 => Recorded(image_files[i])
                    /\ i > idx + 1 => task[image_files[i]].st = "none"
                /\ \A i \in 1..(Len(image_files) - 1) :
                    image_files[i] < image_files[i + 1]]_vars

\* the second file's call is running after the first was counted, with a
\* batch size that would put the two in different batches
C21_Witness ==
    /\ pc = "Sequential"
    /\ workers = 1
    /\ batch_size = 1
    /\ Len(image_files) = 2
    /\ Recorded(image_files[1])
    /\ task[image_files[2]].st = "running"

\* the run is over, or only the summary is left
RunEnded == pc \in {"Summarizing", "Done"}

\* C22: in a world whose head_object, put_object and create_thumbnail
\* outcomes depend on the key and the attempt only, a run that ends, by the
\* pool path with any workers > 1 and any batch_size in any interleaving or
\* by the sequential path, leaves the counters, the written keys and the
\* bucket that _upload_sequential leaves for the same file list, the same
\* initial bucket and the same skip_existing.
C22_PathEquivalence ==
    RunEnded =>
        LET seq == sequential_run(nfiles, skip_existing, world) IN
            /\ stats = seq.stats
            /\ world.written = seq.written
            /\ store = seq.store

\* a pool run of two files in one batch has ended with one file uploaded
\* and one failed
C22_Witness ==
    /\ pc = "Done"
    /\ workers > 1
    /\ batch_size > 1
    /\ nfiles = 2
    /\ stats.successful_uploads = 1
    /\ stats.failed_uploads = 1
    /\ world.written # {}

=============================================================================
